---- MODULE Spec2Model ----
(***************************************************************************)
(* A model of ev-engine: the bet-tracking ledger of src/src/db.py          *)
(* (create_slip, update_slip_status, get_slip_legs), the opportunity       *)
(* matcher of src/src/odds_api.py (_find_and_save_ev_opportunities) with   *)
(* the probability functions of src/src/analysis.py, and the refresh cycle *)
(* of fetch_odds against a concurrent reader of the opportunity table.     *)
(*                                                                         *)
(* Python values are tagged records: [t |-> "none"], [t |-> "num", v],     *)
(* [t |-> "str", v], [t |-> "list", v], [t |-> "dict", v].  Money is in    *)
(* whole currency units, line values are in tenths (25.5 is 255), and      *)
(* probabilities and EV percentages are exact fractions <<num, den>>.      *)
(***************************************************************************)
EXTENDS Integers, Sequences, FiniteSets, TLC

VARIABLES
    slips,        \* table slips: sequence of rows, in insertion order
    slip_legs,    \* table slip_legs: sequence of rows, in insertion order
    ret,          \* the last ledger call: its arguments and its outcome
    settledWith,  \* per slip id, the payout argument of its last successful settlement
    records,      \* the batch of quote records handed to the matcher
    bets,         \* table bets: sequence of opportunity rows, in insertion order
    matched,      \* how _find_and_save_ev_opportunities ended and the count it returned
    phase,        \* position of the matcher run: "input" or "done"
    pc,           \* position of fetch_odds: "idle", "sports", "sport", "event", "insert",
                  \* "done" (returned) or "raised" (left by an exception)
    cycle,        \* number of fetch_odds calls begun
    sports,       \* in_season_sports still to process
    events,       \* events of the current sport still to process
    pending,      \* insert_bet calls of the current event still to make, and how the run ends
    total_odds_count,  \* the local total_odds_count of fetch_odds
    odds_snapshot,     \* table odds_snapshot: number of rows
    computed,     \* the opportunities the matcher computed in the current cycle
    previous,     \* table bets as it was when the current cycle began
    upstream,     \* what the API request of the current loop iteration raised
    seen          \* the last result of get_all_opportunities, and when it was taken

ledgerVars == <<slips, slip_legs, ret, settledWith>>
matcherVars == <<records, bets, matched, phase>>
batchVars == <<records, matched, phase>>
refreshVars == <<pc, cycle, sports, events, pending, total_odds_count, odds_snapshot,
                 computed, previous, upstream, seen>>
vars == <<slips, slip_legs, ret, settledWith, records, bets, matched, phase,
          pc, cycle, sports, events, pending, total_odds_count, odds_snapshot,
          computed, previous, upstream, seen>>

----------------------------------------------------------------------------
(* Bounds of the model *)

MaxSlips == 2
MaxLegs == 2
MaxBatch == 4
MaxCycles == 2
MaxSports == 2
MaxEvents == 1
MaxSiblingEvents == 2
MaxOdds == 1000
MaxMixedBatch == 5

----------------------------------------------------------------------------
(* Python values *)

NoneV == [t |-> "none"]
Num(n) == [t |-> "num", v |-> n]
Str(s) == [t |-> "str", v |-> s]
List(q) == [t |-> "list", v |-> q]
Dict(f) == [t |-> "dict", v |-> f]

\* float("nan").  The floats of the model are whole amounts; NaN is a value apart
\* from every amount, below them all, so that NaN > x and NaN = x are false for
\* every amount x as in Python; x < 0 and x <= 0 must test for it.
NaN == -1000000

\* SQL NULL in a REAL column, a value apart from every amount and from NaN.
SqlNull == -2000000

\* sqlite3 binds a float NaN parameter as NULL.
BindReal(x) == IF x = NaN THEN SqlNull ELSE x

\* float(s) of a string: the strings of the model that Python parses as numbers.
NumericStrings == [s \in {"20", "nan"} |-> IF s = "nan" THEN NaN ELSE 20]

Max(a, b) == IF a >= b THEN a ELSE b

\* bool(value) of Python, for the values of the model
Truthy(value) ==
    CASE value.t = "none" -> FALSE
      [] value.t = "num" -> value.v # 0
      [] value.t = "str" -> value.v # ""
      [] value.t = "list" -> Len(value.v) > 0
      [] OTHER -> TRUE

----------------------------------------------------------------------------
(* src/src/type_safety.py *)

safe_float(value, default) ==
    CASE value.t = "num" -> value.v
      [] value.t = "str" ->
            IF value.v \in DOMAIN NumericStrings THEN NumericStrings[value.v] ELSE default
      [] OTHER -> default

safe_dict_get(data, key, default, expected_type) ==
    IF data.t # "dict" THEN default
    ELSE LET value == IF key \in DOMAIN data.v THEN data.v[key] ELSE default
         IN  IF expected_type # "any" /\ value.t # "none" /\ value.t # expected_type
             THEN default
             ELSE value

----------------------------------------------------------------------------
(* Exact fractions <<num, den>>, den > 0, in lowest terms, for Python's floats *)

Abs(n) == IF n < 0 THEN -n ELSE n

RECURSIVE GCD(_, _)
GCD(a, b) == IF b = 0 THEN a ELSE GCD(b, a % b)

Frac(n, d) ==
    LET g == GCD(Abs(n), Abs(d))
        sgn == IF d < 0 THEN -1 ELSE 1
    IN  <<(sgn * n) \div g, (sgn * d) \div g>>
FAdd(a, b) == Frac(a[1] * b[2] + b[1] * a[2], a[2] * b[2])
FSub(a, b) == Frac(a[1] * b[2] - b[1] * a[2], a[2] * b[2])
FMul(a, b) == Frac(a[1] * b[1], a[2] * b[2])
FDiv(a, b) == Frac(a[1] * b[2], a[2] * b[1])
FPos(a) == a[1] > 0
FLeq(a, b) == a[1] * b[2] <= b[1] * a[2]
FAbs(a) == <<Abs(a[1]), a[2]>>

----------------------------------------------------------------------------
(* src/src/analysis.py *)

calculate_implied_probabilityOfStake(american_odds) ==
    IF american_odds > 0
    THEN Frac(100, american_odds + 100)
    ELSE Frac(Abs(american_odds), 100)
calculate_implied_probability(american_odds) ==
    IF american_odds > 0
    THEN Frac(100, american_odds + 100)
    ELSE Frac(Abs(american_odds), Abs(american_odds) + 100)

\* Yields <<fair_over_prob, fair_under_prob>>.
devig_pinnacle_oddsTimesTotal(over_odds, under_odds) ==
    LET over_implied == calculate_implied_probability(over_odds)
        under_implied == calculate_implied_probability(under_odds)
        total_implied == FAdd(over_implied, under_implied)
    IN  <<FMul(over_implied, total_implied), FMul(under_implied, total_implied)>>
devig_pinnacle_odds(over_odds, under_odds) ==
    LET over_implied == calculate_implied_probability(over_odds)
        under_implied == calculate_implied_probability(under_odds)
        total_implied == FAdd(over_implied, under_implied)
    IN  <<FDiv(over_implied, total_implied), FDiv(under_implied, total_implied)>>

calculate_ev_percentage(fair_prob, implied_breakeven_prob) ==
    FMul(FSub(FDiv(fair_prob, implied_breakeven_prob), <<1, 1>>), <<100, 1>>)

RECURSIVE Pow(_, _)
Pow(base, exponent) == IF exponent = 0 THEN 1 ELSE base * Pow(base, exponent - 1)

\* (1 / payout_multiplier) ** (1 / num_legs), to a twentieth: the bounds
\* <<low, high>> with low <= root < high, low^num_legs * payout_multiplier <= 1.
calculate_breakeven_probabilitySquareRoot(payout_multiplier, num_legs) ==
    LET k == CHOOSE j \in 0..19 :
                 /\ Pow(j, 2) * payout_multiplier <= Pow(20, 2)
                 /\ Pow(j + 1, 2) * payout_multiplier > Pow(20, 2)
    IN  <<Frac(k, 20), Frac(k + 1, 20)>>
calculate_breakeven_probability(payout_multiplier, num_legs) ==
    LET k == CHOOSE j \in 0..19 :
                 /\ Pow(j, num_legs) * payout_multiplier <= Pow(20, num_legs)
                 /\ Pow(j + 1, num_legs) * payout_multiplier > Pow(20, num_legs)
    IN  <<Frac(k, 20), Frac(k + 1, 20)>>

----------------------------------------------------------------------------
(* src/src/config.py and the constants of src/src/odds_api.py *)

SHARP_BOOKMAKER == "pinnacle"
FALLBACK_SHARP_BOOKMAKER == "fanduel"
DFS_BOOKMAKERS == <<"prizepicks", "underdog", "betr_us_dfs", "pick6">>
SHARP_CONFIDENCE == [b \in {"pinnacle", "fanduel"} |->
                        IF b = "pinnacle" THEN <<1, 1>> ELSE <<3, 4>>]
DFS_BOOK_NAMES == [b \in {"prizepicks", "underdog", "betr_us_dfs", "pick6"} |->
                      CASE b = "prizepicks" -> "PrizePicks"
                        [] b = "underdog" -> "Underdog"
                        [] b = "betr_us_dfs" -> "Betr"
                        [] b = "pick6" -> "DK Pick6"]
IMPLIED_BREAKEVEN_PROB == Frac(5425, 10000)

----------------------------------------------------------------------------
(* src/src/type_safety.py, integer side *)

safe_int(value, default) ==
    CASE value.t = "num" -> value.v
      [] value.t = "str" ->
            IF value.v \in DOMAIN NumericStrings THEN NumericStrings[value.v] ELSE default
      [] OTHER -> default

\* TRUE when validate_american_odds raises ValueError
AmericanOddsRejected(value) == -100 < value /\ value < 100

----------------------------------------------------------------------------
(* The ledger: src/src/db.py, slip-based tracking *)

Books == {"PrizePicks"}

\* Arguments the callers may pass.
StakeInputs == {Num(10), Str("20"), Num(0), Num(-10), Str("abc")}
PayoutInputs == {Num(-5), Num(0), Num(5), Num(10), Num(20), Num(30), Str("abc")}

GoodLeg == Dict([player |-> Str("LeBron James"), market |-> Str("player_points_over"),
                 line |-> Num(255)])
NullPlayerLeg == Dict([player |-> NoneV, market |-> Str("player_points_over"),
                       line |-> Num(255)])
NonDictLeg == Str("not a dict")
LegInputs == {GoodLeg, NullPlayerLeg, NonDictLeg}

SeqsUpTo(S, n) == UNION {[1..k -> S] : k \in 0..n}
Prefix(q, n) == SubSeq(q, 1, IF n < Len(q) THEN n ELSE Len(q))
LegsInputs == {NoneV, Str("legs")} \cup {List(q) : q \in SeqsUpTo(LegInputs, MaxLegs)}

\* A row of table slips as INSERT INTO slips (book, stake, note) creates it:
\* id from AUTOINCREMENT, payout DEFAULT 0.0, status DEFAULT 'Pending'.
NewSlipRow(rows, book, stake_value) ==
    [id |-> Len(rows) + 1, book |-> book, stake |-> stake_value,
     payout |-> 0, status |-> "Pending"]

\* NOT NULL columns of slip_legs: player, market.
LegInsertFails(player, market) == player.t = "none" \/ market.t = "none"

NewLegRow(slip_id, player, market, line) ==
    [slip_id |-> slip_id, player |-> player.v, market |-> market.v,
     line |-> line, outcome |-> NoneV]

\* conn.rollback(): the tables as they were before the transaction began.
RollbackKeepsWork(before, work) == work
Rollback(before, work) == before

\* if stake_value <= 0: raise ValueError
StakeRejectedZeroAccepted(stake_value) == stake_value # NaN /\ stake_value < 0
StakeRejected(stake_value) == stake_value # NaN /\ stake_value <= 0

\* if not legs or not isinstance(legs, list): raise ValueError
LegsRejected(legs) == ~Truthy(legs) \/ legs.t # "list"

\* The loop over legs inside the transaction.  `work` is the uncommitted
\* state [slips, legs, n]: n counts the INSERTs executed so far; the fail_at-th
\* execute raises a storage error (0: none does), and so does a NULL in a
\* NOT NULL column.  Yields [ok, slips, legs].
RECURSIVE InsertLegs(_, _, _, _, _)
InsertLegs(legs, i, slip_id, work, fail_at) ==
    IF i > Len(legs) THEN [ok |-> TRUE, slips |-> work.slips, legs |-> work.legs]
    ELSE LET leg == legs[i] IN
         IF leg.t # "dict" THEN InsertLegs(legs, i + 1, slip_id, work, fail_at)
         ELSE LET player == safe_dict_get(leg, "player", Str("Unknown"), "str")
                  market == safe_dict_get(leg, "market", Str("Unknown"), "str")
                  line_raw == IF "line" \in DOMAIN leg.v THEN leg.v["line"] ELSE NoneV
                  line == IF line_raw.t # "none" THEN safe_float(line_raw, 0) ELSE 0
              IN  IF work.n + 1 = fail_at \/ LegInsertFails(player, market)
                  THEN [ok |-> FALSE, slips |-> work.slips, legs |-> work.legs]
                  ELSE InsertLegs(legs, i + 1, slip_id,
                                  [slips |-> work.slips,
                                   legs |-> Append(work.legs,
                                                   NewLegRow(slip_id, player, market, line)),
                                   n |-> work.n + 1],
                                  fail_at)

\* The try block of create_slip: slip INSERT, leg INSERTs, commit or rollback.
\* Yields [result, slip_id, slips, legs].
CreateSlipTxn(book, stake_value, legs, fail_at) ==
    LET before == [slips |-> slips, legs |-> slip_legs]
        row == NewSlipRow(slips, book, stake_value)
    IN  IF fail_at = 1 \/ BindReal(stake_value) = SqlNull
        THEN LET back == Rollback(before, before)
             IN  [result |-> "StorageError", slip_id |-> 0,
                  slips |-> back.slips, legs |-> back.legs]
        ELSE LET done == InsertLegs(legs, 1, row.id,
                                    [slips |-> Append(slips, row), legs |-> slip_legs, n |-> 1],
                                    fail_at)
             IN  IF done.ok
                 THEN [result |-> "ok", slip_id |-> row.id,
                       slips |-> done.slips, legs |-> done.legs]
                 ELSE LET back == Rollback(before, [slips |-> done.slips, legs |-> done.legs])
                      IN  [result |-> "StorageError", slip_id |-> 0,
                           slips |-> back.slips, legs |-> back.legs]

Call(op, slip_id, stake, legs, payout, result, prev, value, fault) ==
    [op |-> op, slip_id |-> slip_id, stake |-> stake, legs |-> legs, payout |-> payout,
     result |-> result, prev |-> prev, value |-> value, fault |-> fault]

create_slip(book, stake, legs, fail_at) ==
    LET stake_value == safe_float(stake, 0) IN
    /\ ret.op = "none"
    /\ Len(slips) < MaxSlips
    /\ IF StakeRejected(stake_value) \/ LegsRejected(legs)
       THEN /\ ret' = Call("create_slip", 0, stake, legs, NoneV, "ValueError", "", <<>>,
                            fail_at)
            /\ UNCHANGED <<slips, slip_legs, settledWith>>
       ELSE LET txn == CreateSlipTxn(book, stake_value, legs.v, fail_at) IN
            /\ slips' = txn.slips
            /\ slip_legs' = txn.legs
            /\ settledWith' = IF txn.result = "ok" THEN Append(settledWith, NoneV)
                              ELSE settledWith
            /\ ret' = Call("create_slip", txn.slip_id, stake, legs, NoneV, txn.result, "",
                            <<>>, fail_at)
    /\ UNCHANGED <<matcherVars, refreshVars>>

\* The status update_slip_status derives from the payout and the stake.
SettleStatusPushIsProfit(payout_value, stake) ==
    IF payout_value >= stake THEN "Profit"
    ELSE IF payout_value > 0 THEN "Partial"
    ELSE "Lost"
SettleStatusZeroReopens(payout_value, stake) ==
    IF payout_value > stake THEN "Profit"
    ELSE IF payout_value = stake THEN "Push"
    ELSE IF payout_value > 0 THEN "Partial"
    ELSE IF payout_value = 0 THEN "Pending"
    ELSE "Lost"
SettleStatus(payout_value, stake) ==
    IF payout_value > stake THEN "Profit"
    ELSE IF payout_value = stake THEN "Push"
    ELSE IF payout_value > 0 THEN "Partial"
    ELSE "Lost"

\* if payout_value < 0: payout_value = 0.0
ClampPayout(payout_value) ==
    IF payout_value # NaN /\ payout_value < 0 THEN 0 ELSE payout_value

\* UPDATE slips SET status = ?, payout = ? WHERE id = ?
UpdateSlipRowsNoWhere(rows, slip_id, status, payout_value) ==
    [i \in 1..Len(rows) |-> [rows[i] EXCEPT !.status = status, !.payout = payout_value]]
UpdateSlipRowsFirstOnly(rows, slip_id, status, payout_value) ==
    [i \in 1..Len(rows) |->
        IF rows[i].id = slip_id /\ rows[i].status = "Pending"
        THEN [rows[i] EXCEPT !.status = status, !.payout = payout_value]
        ELSE rows[i]]
UpdateSlipRows(rows, slip_id, status, payout_value) ==
    [i \in 1..Len(rows) |->
        IF rows[i].id = slip_id
        THEN [rows[i] EXCEPT !.status = status, !.payout = payout_value]
        ELSE rows[i]]

\* The statuses update_slip_status assigns.
TerminalStatuses == {"Profit", "Push", "Partial", "Lost"}

\* SELECT stake FROM slips WHERE id = ?
SlipRowsByIdOrFirst(rows, slip_id) ==
    IF \E i \in 1..Len(rows) : rows[i].id = slip_id
    THEN {i \in 1..Len(rows) : rows[i].id = slip_id}
    ELSE {i \in 1..Len(rows) : i = 1}
SlipRowsById(rows, slip_id) == {i \in 1..Len(rows) : rows[i].id = slip_id}

update_slip_status(slip_id, payout) ==
    LET found == SlipRowsById(slips, slip_id) IN
    /\ ret.op = "none"
    /\ IF found = {}
       THEN /\ ret' = Call("update_slip_status", slip_id, NoneV, NoneV, payout, "False", "",
                            <<>>, 0)
            /\ UNCHANGED <<slips, slip_legs, settledWith>>
       ELSE LET row == slips[CHOOSE i \in found : TRUE]
                stake == row.stake
                payout_value == ClampPayout(safe_float(payout, 0))
                status == SettleStatus(payout_value, stake)
            IN  /\ slips' = UpdateSlipRows(slips, slip_id, status, BindReal(payout_value))
                /\ settledWith' = [settledWith EXCEPT ![slip_id] = payout]
                /\ ret' = Call("update_slip_status", slip_id, NoneV, NoneV, payout, "True",
                               row.status, <<>>, 0)
                /\ UNCHANGED slip_legs
    /\ UNCHANGED <<matcherVars, refreshVars>>

\* SELECT id, player, market, line, outcome FROM slip_legs WHERE slip_id = ?
SelectLegs(rows, slip_id) == SelectSeq(rows, LAMBDA r : r.slip_id = slip_id)

get_slip_legs(slip_id) ==
    /\ ret.op = "none"
    /\ ret' = Call("get_slip_legs", slip_id, NoneV, NoneV, NoneV, "ok", "",
                   SelectLegs(slip_legs, slip_id), 0)
    /\ UNCHANGED <<slips, slip_legs, settledWith>>
    /\ UNCHANGED <<matcherVars, refreshVars>>

SlipIds == 1..(MaxSlips + 1)

NoCall == Call("none", 0, NoneV, NoneV, NoneV, "", "", <<>>, 0)

\* The call returns (or raises) to the dashboard, which may then make the next one:
\* the ledger has one user session and its calls do not overlap.
ReturnStep ==
    /\ ret.op # "none"
    /\ ret' = NoCall
    /\ UNCHANGED <<slips, slip_legs, settledWith>>
    /\ UNCHANGED <<matcherVars, refreshVars>>

\* Where a storage fault may strike a create_slip call: at none of its INSERTs (0)
\* or at the k-th one it executes; a call rejected before the transaction has none.
FaultPoints(stake, legs) ==
    IF StakeRejected(safe_float(stake, 0)) \/ LegsRejected(legs) THEN {0}
    ELSE 0..(1 + Cardinality({i \in 1..Len(legs.v) : legs.v[i].t = "dict"}))

InitLedger ==
    /\ slips = <<>>
    /\ slip_legs = <<>>
    /\ settledWith = <<>>
    /\ ret = NoCall

InitMatcherIdle ==
    /\ records = <<>>
    /\ bets = <<>>
    /\ matched = [result |-> "", ev_count |-> 0]
    /\ phase = "input"

\* No refresh has run: fetch_odds is not active and nobody has read the table.
InitRefreshIdle ==
    /\ pc = "idle"
    /\ cycle = 0
    /\ sports = <<>>
    /\ events = <<>>
    /\ pending = [rows |-> <<>>, result |-> "ok"]
    /\ total_odds_count = 0
    /\ odds_snapshot = 0
    /\ computed = <<>>
    /\ previous = <<>>
    /\ upstream = "none"
    /\ seen = [view |-> <<>>, cycle |-> 0, during |-> FALSE]

LedgerInit == InitLedger /\ InitMatcherIdle /\ InitRefreshIdle

CreateSlipStep(stakes, legsArgs) ==
    \E book \in Books, stake \in stakes, legs \in legsArgs :
        \E fail_at \in FaultPoints(stake, legs) : create_slip(book, stake, legs, fail_at)

UpdateSlipStatusStep(payouts) ==
    \E slip_id \in SlipIds, payout \in payouts : update_slip_status(slip_id, payout)

GetSlipLegsStep == \E slip_id \in SlipIds : get_slip_legs(slip_id)

\* The ledger under every settlement: slips of one leg, every payout argument.
SettleLegsInputs == {NoneV, List(<<>>), List(<<GoodLeg>>)}

SettleNext ==
    \/ CreateSlipStep(StakeInputs, SettleLegsInputs)
    \/ UpdateSlipStatusStep(PayoutInputs)
    \/ GetSlipLegsStep
    \/ ReturnStep

SpecSettle == LedgerInit /\ [][SettleNext]_vars

\* The ledger under every creation: every legs argument and storage fault, one payout.
CreatePayoutInputs == {Num(30)}

CreateNext ==
    \/ CreateSlipStep(StakeInputs, LegsInputs)
    \/ UpdateSlipStatusStep(CreatePayoutInputs)
    \/ GetSlipLegsStep
    \/ ReturnStep

SpecCreate == LedgerInit /\ [][CreateNext]_vars

\* The ledger under arguments of every kind: amounts, strings that are no
\* number, and the float NaN, as a stake and as a payout.
ArgumentStakeInputs == {Num(10), Str("20"), Num(0), Num(-10), Str("abc"), Str("nan")}
ArgumentPayoutInputs == {Num(-5), Num(0), Num(5), Num(20), Num(30), Str("abc"), Str("nan")}

ArgumentsNext ==
    \/ CreateSlipStep(ArgumentStakeInputs, SettleLegsInputs)
    \/ UpdateSlipStatusStep(ArgumentPayoutInputs)
    \/ GetSlipLegsStep
    \/ ReturnStep

SpecArguments == LedgerInit /\ [][ArgumentsNext]_vars

----------------------------------------------------------------------------
(* Reading the ledger: get_all_slips and get_slip_analytics of src/src/db.py *)

\* safe_float(raw, default=0.0) if raw is not None else 0.0, on a REAL column
ReadReal(raw) == IF raw = SqlNull THEN 0 ELSE raw

\* The P/L of get_all_slips: None where no branch of the chain applies.
SlipPL(status, stake, payout) ==
    IF status = "Won" THEN Num(payout - stake)
    ELSE IF status = "Lost" THEN Num(0 - stake)
    ELSE IF status = "Push" THEN Num(0)
    ELSE NoneV

\* One entry of the DataFrame (the Picks text and the Timestamp aside); an
\* amount left out is shown as "-".
SlipEntry(slip, legs) ==
    LET stake == ReadReal(slip.stake)
        payout == ReadReal(slip.payout)
        pl == SlipPL(slip.status, stake, payout)
    IN  [ID |-> slip.id,
         Book |-> slip.book,
         Legs |-> Len(SelectLegs(legs, slip.id)),
         Stake |-> stake,
         Payout |-> IF payout # 0 THEN Num(payout) ELSE Str("-"),
         Status |-> slip.status,
         PL |-> IF pl.t # "none" THEN pl ELSE Str("-")]

\* SELECT ... FROM slips ORDER BY timestamp DESC LIMIT 100: the timestamps have
\* a resolution of one second and rows of one second come in any order.
get_all_slips ==
    /\ ret.op = "none"
    /\ \E order \in Permutations(1..Len(slips)) :
          ret' = Call("get_all_slips", 0, NoneV, NoneV, NoneV, "ok", "",
                      [k \in 1..Len(slips) |-> SlipEntry(slips[order[k]], slip_legs)], 0)
    /\ UNCHANGED <<slips, slip_legs, settledWith>>
    /\ UNCHANGED <<matcherVars, refreshVars>>

\* The accumulators of get_slip_analytics before its loop.
AnalyticsStart ==
    [total_staked |-> 0, total_profit |-> 0, wins |-> 0, losses |-> 0, pending |-> 0,
     bankroll_history |-> <<100>>]

Last(q) == q[Len(q)]

\* elif status in ("Won", "Profit")
WonBranch(acc, stake, payout) ==
    [acc EXCEPT !.wins = @ + 1,
                !.total_staked = @ + stake,
                !.total_profit = @ + (payout - stake),
                !.bankroll_history = Append(@, Last(@) + (payout - stake))]

\* elif status == "Lost"
LostBranchStakeKept(acc, stake) ==
    [acc EXCEPT !.losses = @ + 1,
                !.total_staked = @ + stake,
                !.bankroll_history = Append(@, Last(@) - stake)]
LostBranch(acc, stake) ==
    [acc EXCEPT !.losses = @ + 1,
                !.total_staked = @ + stake,
                !.total_profit = @ - stake,
                !.bankroll_history = Append(@, Last(@) - stake)]

\* elif status == "Partial"
PartialBranchNoLoss(acc, stake, payout) ==
    [acc EXCEPT !.total_staked = @ + stake,
                !.total_profit = @ + (payout - stake),
                !.bankroll_history = Append(@, Last(@) + (payout - stake))]
PartialBranch(acc, stake, payout) ==
    [acc EXCEPT !.losses = @ + 1,
                !.total_staked = @ + stake,
                !.total_profit = @ + (payout - stake),
                !.bankroll_history = Append(@, Last(@) + (payout - stake))]

\* elif status == "Push"
PushBranchNoEntry(acc, stake) == [acc EXCEPT !.total_staked = @ + stake]
PushBranch(acc, stake) ==
    [acc EXCEPT !.total_staked = @ + stake,
                !.bankroll_history = Append(@, Last(@))]

\* The body of the loop for one row.
AnalyticsRow(acc, row) ==
    LET stake == ReadReal(row.stake)
        payout == ReadReal(row.payout)
        status == row.status
    IN  IF status = "Pending" THEN [acc EXCEPT !.pending = @ + 1]
        ELSE IF status \in {"Won", "Profit"} THEN WonBranch(acc, stake, payout)
        ELSE IF status = "Lost" THEN LostBranch(acc, stake)
        ELSE IF status = "Partial" THEN PartialBranch(acc, stake, payout)
        ELSE IF status = "Push" THEN PushBranch(acc, stake)
        ELSE acc

\* for row in rows, over SELECT stake, payout, status FROM slips: a scan of the
\* table, which SQLite walks in rowid order.
RECURSIVE AnalyticsLoop(_, _)
AnalyticsLoop(rows, n) ==
    IF n = 0 THEN AnalyticsStart ELSE AnalyticsRow(AnalyticsLoop(rows, n - 1), rows[n])

\* The dictionary get_slip_analytics returns.
SlipAnalytics(rows) ==
    LET acc == AnalyticsLoop(rows, Len(rows))
        total_decided == acc.wins + acc.losses
    IN  [total_profit |-> acc.total_profit,
         total_staked |-> acc.total_staked,
         roi |-> IF acc.total_staked > 0 THEN Frac(acc.total_profit * 100, acc.total_staked)
                 ELSE Frac(0, 1),
         win_rate |-> IF total_decided > 0 THEN Frac(acc.wins * 100, total_decided)
                      ELSE Frac(0, 1),
         wins |-> acc.wins,
         losses |-> acc.losses,
         pending |-> acc.pending,
         bankroll_history |-> acc.bankroll_history]

get_slip_analytics ==
    /\ ret.op = "none"
    /\ ret' = Call("get_slip_analytics", 0, NoneV, NoneV, NoneV, "ok", "",
                   SlipAnalytics(slips), 0)
    /\ UNCHANGED <<slips, slip_legs, settledWith>>
    /\ UNCHANGED <<matcherVars, refreshVars>>

\* The ledger settled and read: slips of one leg, every payout argument.
ReportNext ==
    \/ CreateSlipStep(StakeInputs, SettleLegsInputs)
    \/ UpdateSlipStatusStep(PayoutInputs)
    \/ get_all_slips
    \/ get_slip_analytics
    \/ ReturnStep

SpecReport == LedgerInit /\ [][ReportNext]_vars

----------------------------------------------------------------------------
(* Hit history: get_historical_hit_rate of src/src/db.py over legs whose     *)
(* outcome has been recorded                                                 *)

\* str.lower() and LOWER() on the texts of this ledger.
LowerCase ==
    [text \in {"Player Points Over", "Player Assists Over", "Points", "over",
               "Win", "Loss", "Unknown"} |->
        CASE text = "Player Points Over" -> "player points over"
          [] text = "Player Assists Over" -> "player assists over"
          [] text = "Points" -> "points"
          [] text = "over" -> "over"
          [] text = "Win" -> "win"
          [] text = "Loss" -> "loss"
          [] text = "Unknown" -> "unknown"]

\* needle in text, and text LIKE '%needle%', on lower-case texts.
Contains(text, needle) ==
    \/ needle = text
    \/ text = "player points over" /\ needle \in {"over", "points"}
    \/ text = "player assists over" /\ needle = "over"

\* A leg as the dashboard submits it.
HitLeg(player, market, line) ==
    Dict([player |-> Str(player), market |-> Str(market), line |-> Num(line)])

HitRateLegsInputs ==
    {List(<<HitLeg("LeBron James", "Player Points Over", 255)>>),
     List(<<HitLeg("LeBron James", "Player Assists Over", 65)>>),
     List(<<HitLeg("Stephen Curry", "Player Points Over", 255)>>),
     List(<<HitLeg("LeBron James", "Player Points Over", 255),
            HitLeg("LeBron James", "Player Assists Over", 65)>>)}

\* UPDATE slip_legs SET outcome = ? WHERE slip_id = ?: no operation of db.py
\* writes the column, the results of the legs are recorded on the table itself.
RecordLegOutcome(slip_id, outcome) ==
    /\ ret.op = "none"
    /\ \E i \in 1..Len(slip_legs) : slip_legs[i].slip_id = slip_id
    /\ slip_legs' = [i \in 1..Len(slip_legs) |->
                        IF slip_legs[i].slip_id = slip_id
                        THEN [slip_legs[i] EXCEPT !.outcome = Str(outcome)]
                        ELSE slip_legs[i]]
    /\ UNCHANGED <<slips, ret, settledWith>>
    /\ UNCHANGED <<matcherVars, refreshVars>>

\* The direction the query filters by: the argument, or what the market names.
LineDirection(market, line_direction) ==
    IF line_direction.t # "none" THEN line_direction
    ELSE IF Contains(LowerCase[market], "over") THEN Str("over")
    ELSE IF Contains(LowerCase[market], "under") THEN Str("under")
    ELSE NoneV

\* The parameter of LOWER(sl.market) LIKE ?, without its % signs.
MarketPattern(market, direction) ==
    IF Truthy(direction) THEN direction.v ELSE LowerCase[market]

\* The legs the WHERE clause of the join keeps.
HitRateRows(legs, rows, player_name, pattern) ==
    {i \in 1..Len(legs) :
        /\ legs[i].player = player_name
        /\ Contains(LowerCase[legs[i].market], pattern)
        /\ \E k \in 1..Len(rows) :
              /\ rows[k].id = legs[i].slip_id
              /\ rows[k].status \in {"Won", "Lost", "Profit", "Partial"}
        /\ legs[i].outcome.t # "none"}

\* The loop over the fetched rows: 1, 0, or nothing for an outcome.
RECURSIVE HitPattern(_)
HitPattern(outcomes) ==
    IF outcomes = <<>> THEN <<>>
    ELSE LET outcome == LowerCase[Head(outcomes).v]
             rest == HitPattern(Tail(outcomes))
         IN  IF outcome \in {"win", "won", "hit", "1"} THEN <<1>> \o rest
             ELSE IF outcome \in {"loss", "lost", "miss", "0"} THEN <<0>> \o rest
             ELSE rest

\* The orders ORDER BY s.timestamp DESC may give the kept legs: the timestamps
\* have a resolution of one second and rows of one second come in any order.
RowOrders(kept) ==
    {order \in [1..Cardinality(kept) -> kept] :
        \A a, b \in 1..Cardinality(kept) : a # b => order[a] # order[b]}

get_historical_hit_rate(player_name, market, line_direction, limit) ==
    LET direction == LineDirection(market, line_direction)
        kept == HitRateRows(slip_legs, slips, player_name, MarketPattern(market, direction))
    IN  /\ ret.op = "none"
        /\ \E order \in RowOrders(kept) :
              LET fetched == Prefix(order, limit)
                  outcomes == [k \in 1..Len(fetched) |-> slip_legs[fetched[k]].outcome]
              IN  ret' = Call("get_historical_hit_rate", 0, NoneV, NoneV, NoneV, "ok", "",
                              Prefix(HitPattern(outcomes), limit), 0)
                         @@ [query |-> [player_name |-> player_name, market |-> market,
                                        line_direction |-> line_direction, limit |-> limit,
                                        fetched |-> fetched]]
        /\ UNCHANGED <<slips, slip_legs, settledWith>>
        /\ UNCHANGED <<matcherVars, refreshVars>>

\* The ledger with recorded leg outcomes, and its hit history read.
HitRateNext ==
    \/ CreateSlipStep({Num(10)}, HitRateLegsInputs)
    \/ UpdateSlipStatusStep({Num(0), Num(10), Num(30)})
    \/ \E slip_id \in SlipIds, outcome \in {"Win", "Loss", "Unknown"} :
          RecordLegOutcome(slip_id, outcome)
    \/ \E market \in {"Player Points Over", "Points"}, line_direction \in {NoneV, Str("over")},
          limit \in 1..MaxLegs :
          get_historical_hit_rate("LeBron James", market, line_direction, limit)
    \/ ReturnStep

SpecHitRate == LedgerInit /\ [][HitRateNext]_vars

----------------------------------------------------------------------------
(* The functions of src/src/analysis.py called on their own *)

\* American odds validate_american_odds lets pass, from even money to long shots.
OddsInputs ==
    {-MaxOdds, -500, -200, -150, -130, -110, -100, 100, 110, 130, 175, 500, MaxOdds}

ImpliedProbabilityCall ==
    /\ ret.op = "none"
    /\ \E american_odds \in OddsInputs :
          ret' = Call("calculate_implied_probability", 0, NoneV, NoneV, NoneV, "ok", "",
                      calculate_implied_probability(american_odds), 0)
                 @@ [args |-> <<american_odds>>]
    /\ UNCHANGED <<slips, slip_legs, settledWith>>
    /\ UNCHANGED <<matcherVars, refreshVars>>

DevigCall ==
    /\ ret.op = "none"
    /\ \E over_odds \in OddsInputs, under_odds \in OddsInputs :
          ret' = Call("devig_pinnacle_odds", 0, NoneV, NoneV, NoneV, "ok", "",
                      devig_pinnacle_odds(over_odds, under_odds), 0)
                 @@ [args |-> <<over_odds, under_odds>>]
    /\ UNCHANGED <<slips, slip_legs, settledWith>>
    /\ UNCHANGED <<matcherVars, refreshVars>>

\* The payout structures of the docstrings: 2 legs 3x, 3 legs 6x, 5 legs 10x.
BreakevenCall ==
    /\ ret.op = "none"
    /\ \E structure \in {<<3, 2>>, <<6, 3>>, <<10, 5>>} :
          ret' = Call("calculate_breakeven_probability", 0, NoneV, NoneV, NoneV, "ok", "",
                      calculate_breakeven_probability(structure[1], structure[2]), 0)
                 @@ [args |-> structure]
    /\ UNCHANGED <<slips, slip_legs, settledWith>>
    /\ UNCHANGED <<matcherVars, refreshVars>>

AnalysisNext ==
    \/ ImpliedProbabilityCall
    \/ DevigCall
    \/ BreakevenCall
    \/ ReturnStep

SpecAnalysis == LedgerInit /\ [][AnalysisNext]_vars

----------------------------------------------------------------------------
(* The opportunity matcher: src/src/odds_api.py *)

\* record.get(key)
DictGet(data, key) == IF key \in DOMAIN data.v THEN data.v[key] ELSE NoneV

\* grouped[key][bookmaker][selection] = price, creating the group and the
\* bookmaker's entry when absent.  `grouped` is the dict in insertion order: a
\* sequence of [key, books], books a function bookmaker -> (selection -> price).
PutQuoteIgnoringLine(grouped, key, bookmaker, selection, price) ==
    LET at == {g \in 1..Len(grouped) :
                 grouped[g].key[1] = key[1] /\ grouped[g].key[2] = key[2]}
    IN  IF at = {}
        THEN Append(grouped, [key |-> key, books |-> (bookmaker :> (selection :> price))])
        ELSE LET g == CHOOSE g \in at : TRUE
                 books == grouped[g].books
                 odds == IF bookmaker \in DOMAIN books THEN books[bookmaker] ELSE <<>>
             IN  [grouped EXCEPT ![g].books =
                     (bookmaker :> ((selection :> price) @@ odds)) @@ books]
PutQuote(grouped, key, bookmaker, selection, price) ==
    LET at == {g \in 1..Len(grouped) : grouped[g].key = key}
    IN  IF at = {}
        THEN Append(grouped, [key |-> key, books |-> (bookmaker :> (selection :> price))])
        ELSE LET g == CHOOSE g \in at : TRUE
                 books == grouped[g].books
                 odds == IF bookmaker \in DOMAIN books THEN books[bookmaker] ELSE <<>>
             IN  [grouped EXCEPT ![g].books =
                     (bookmaker :> ((selection :> price) @@ odds)) @@ books]

\* The first loop: group the records by (player_name, market_key, point).
RECURSIVE GroupRecords(_, _, _)
GroupRecords(recs, i, grouped) ==
    IF i > Len(recs) THEN grouped
    ELSE LET record == recs[i]
             player_name == safe_dict_get(record, "player_name", Str(""), "str")
             market_key == safe_dict_get(record, "market_key", Str(""), "str")
             point == safe_dict_get(record, "point", Num(0), "any")
             bookmaker == safe_dict_get(record, "bookmaker", Str(""), "str")
             selection == safe_dict_get(record, "selection", Str(""), "str")
             price == DictGet(record, "price")
         IN  IF ~(Truthy(player_name) /\ Truthy(market_key) /\ Truthy(bookmaker)
                    /\ Truthy(selection) /\ price.t # "none")
             THEN GroupRecords(recs, i + 1, grouped)
             ELSE GroupRecords(recs, i + 1,
                      PutQuote(grouped, <<player_name.v, market_key.v, point>>,
                               bookmaker.v, selection.v, price))

\* Which sharp bookmaker a group uses: "" when it has neither.
SharpSourceFallbackFirst(books) ==
    IF FALLBACK_SHARP_BOOKMAKER \in DOMAIN books THEN FALLBACK_SHARP_BOOKMAKER
    ELSE IF SHARP_BOOKMAKER \in DOMAIN books THEN SHARP_BOOKMAKER
    ELSE ""
SharpSourceWithBothSides(books) ==
    IF SHARP_BOOKMAKER \in DOMAIN books /\ DOMAIN books[SHARP_BOOKMAKER] = {"Over", "Under"}
    THEN SHARP_BOOKMAKER
    ELSE IF FALLBACK_SHARP_BOOKMAKER \in DOMAIN books THEN FALLBACK_SHARP_BOOKMAKER
    ELSE IF SHARP_BOOKMAKER \in DOMAIN books THEN SHARP_BOOKMAKER
    ELSE ""
SharpSource(books) ==
    IF SHARP_BOOKMAKER \in DOMAIN books THEN SHARP_BOOKMAKER
    ELSE IF FALLBACK_SHARP_BOOKMAKER \in DOMAIN books THEN FALLBACK_SHARP_BOOKMAKER
    ELSE ""

\* raw_ev * confidence if raw_ev > 0 else raw_ev
ApplyConfidenceAlways(raw_ev, confidence) == FMul(raw_ev, confidence)
ApplyConfidence(raw_ev, confidence) ==
    IF FPos(raw_ev) THEN FMul(raw_ev, confidence) ELSE raw_ev

\* SHARP_CONFIDENCE.get(sharp_source, 0.75)
ConfidenceOf(sharp_source) ==
    IF sharp_source \in DOMAIN SHARP_CONFIDENCE THEN SHARP_CONFIDENCE[sharp_source]
    ELSE <<3, 4>>

\* The sharp side of one group: [skip |-> TRUE] when the group is passed over,
\* else the sharp prices, the fair probabilities and the discounted EVs.
SharpQuote(books) ==
    LET sharp_source == SharpSource(books) IN
    IF sharp_source = "" THEN [skip |-> TRUE]
    ELSE LET sharp_odds == books[sharp_source] IN
         IF "Over" \notin DOMAIN sharp_odds \/ "Under" \notin DOMAIN sharp_odds
         THEN [skip |-> TRUE]
         ELSE LET sharp_over == safe_int(sharp_odds["Over"], 0)
                  sharp_under == safe_int(sharp_odds["Under"], 0)
              IN  IF AmericanOddsRejected(sharp_over) \/ AmericanOddsRejected(sharp_under)
                  THEN [skip |-> TRUE]
                  ELSE LET confidence == ConfidenceOf(sharp_source)
                           fair == devig_pinnacle_odds(sharp_over, sharp_under)
                           raw_over_ev == calculate_ev_percentage(fair[1], IMPLIED_BREAKEVEN_PROB)
                           raw_under_ev == calculate_ev_percentage(fair[2], IMPLIED_BREAKEVEN_PROB)
                       IN  [skip |-> FALSE, sharp_source |-> sharp_source,
                            sharp_over |-> sharp_over, sharp_under |-> sharp_under,
                            fair_over_prob |-> fair[1], fair_under_prob |-> fair[2],
                            over_ev_pct |-> ApplyConfidence(raw_over_ev, confidence),
                            under_ev_pct |-> ApplyConfidence(raw_under_ev, confidence)]

\* The arguments of one db.insert_bet call, event_id aside; the market
\* f"{market_key}_over" is the pair <<market_key, "_over">>.
BetArgs(key, side, q, book_name) ==
    [player_name |-> key[1],
     market |-> <<key[2], IF side = "Over" THEN "_over" ELSE "_under">>,
     line_value |-> key[3],
     pinnacle_over_price |-> q.sharp_over,
     pinnacle_under_price |-> q.sharp_under,
     fair_win_prob |-> IF side = "Over" THEN q.fair_over_prob ELSE q.fair_under_prob,
     ev_percentage |-> IF side = "Over" THEN q.over_ev_pct ELSE q.under_ev_pct,
     dfs_book |-> book_name]

\* for dfs_book in DFS_BOOKMAKERS: the insert_bet calls of one group, in order.
RECURSIVE DfsCalls(_, _, _)
DfsCalls(group, q, d) ==
    IF d > Len(DFS_BOOKMAKERS) THEN <<>>
    ELSE LET dfs_book == DFS_BOOKMAKERS[d]
             rest == DfsCalls(group, q, d + 1)
         IN  IF dfs_book \notin DOMAIN group.books THEN rest
             ELSE LET dfs_odds == group.books[dfs_book]
                      book_name == IF dfs_book \in DOMAIN DFS_BOOK_NAMES
                                   THEN DFS_BOOK_NAMES[dfs_book] ELSE dfs_book
                      over == IF "Over" \in DOMAIN dfs_odds
                              THEN <<BetArgs(group.key, "Over", q, book_name)>> ELSE <<>>
                      under == IF "Under" \in DOMAIN dfs_odds
                               THEN <<BetArgs(group.key, "Under", q, book_name)>> ELSE <<>>
                  IN  over \o under \o rest

\* The second loop: the insert_bet calls of all groups, in the order made.
RECURSIVE GroupCalls(_, _)
GroupCalls(grouped, g) ==
    IF g > Len(grouped) THEN <<>>
    ELSE LET q == SharpQuote(grouped[g].books)
         IN  (IF q.skip THEN <<>> ELSE DfsCalls(grouped[g], q, 1))
               \o GroupCalls(grouped, g + 1)

\* NOT NULL columns of bets that an argument can leave NULL.
BetInsertFails(row) == row.event_id.t = "none" \/ row.line_value.t = "none"

\* db.insert_bet(event_id=records[0]["event_id"], ...), call after call, each
\* committed on its own; the first call that raises ends the run.
RECURSIVE InsertBets(_, _, _, _)
InsertBets(calls, c, recs, rows) ==
    IF c > Len(calls) THEN [result |-> "ok", ev_count |-> Len(calls), rows |-> rows]
    ELSE IF "event_id" \notin DOMAIN recs[1].v
         THEN [result |-> "KeyError", ev_count |-> 0, rows |-> rows]
         ELSE LET row == [event_id |-> recs[1].v["event_id"]] @@ calls[c]
              IN  IF BetInsertFails(row)
                  THEN [result |-> "StorageError", ev_count |-> 0, rows |-> rows]
                  ELSE InsertBets(calls, c + 1, recs, Append(rows, row))

find_and_save_ev_opportunities(recs, rows) ==
    InsertBets(GroupCalls(GroupRecords(recs, 1, <<>>), 1), 1, recs, rows)

\* A parsed quote record as _parse_props_response builds it (sport_key and
\* timestamp, which the matcher does not read, left out).
EventQuote(event_id, bookmaker, selection, price, point) ==
    Dict([event_id |-> event_id, bookmaker |-> Str(bookmaker),
          market_key |-> Str("player_points"), player_name |-> Str("LeBron James"),
          selection |-> Str(selection), price |-> Num(price), point |-> Num(point)])

Quote(bookmaker, selection, price, point) ==
    EventQuote(Str("event1"), bookmaker, selection, price, point)

\* A record without player_name.
NamelessQuote ==
    Dict([event_id |-> Str("event1"), bookmaker |-> Str("pinnacle"),
          market_key |-> Str("player_points"), selection |-> Str("Under"),
          price |-> Num(120), point |-> Num(255)])

\* The quotes a batch is drawn from.
QuoteInputs ==
    {Quote("pinnacle", "Over", -150, 255), Quote("pinnacle", "Under", 120, 255),
     Quote("pinnacle", "Under", 50, 255),
     Quote("fanduel", "Over", 120, 255), Quote("fanduel", "Under", -150, 255),
     Quote("prizepicks", "Over", -110, 255), Quote("prizepicks", "Under", -110, 255),
     Quote("underdog", "Over", -110, 255),
     Quote("prizepicks", "Over", -110, 265), Quote("pinnacle", "Over", -150, 265),
     Quote("draftkings", "Over", -110, 255),
     NamelessQuote}

Range(q) == {q[i] : i \in 1..Len(q)}

MatcherInit ==
    /\ InitLedger
    /\ records = <<>>
    /\ bets = <<>>
    /\ matched = [result |-> "", ev_count |-> 0]
    /\ phase = "input"
    /\ InitRefreshIdle

\* The caller assembles the batch, one record after another.
AddRecord(quotes, max_batch) ==
    /\ phase = "input"
    /\ Len(records) < max_batch
    /\ \E r \in quotes \ Range(records) : records' = Append(records, r)
    /\ UNCHANGED <<bets, matched, phase>>
    /\ UNCHANGED <<ledgerVars, refreshVars>>

\* _find_and_save_ev_opportunities(records, db)
FindAndSave ==
    /\ phase = "input"
    /\ LET run == find_and_save_ev_opportunities(records, bets)
       IN  /\ bets' = run.rows
           /\ matched' = [result |-> run.result, ev_count |-> run.ev_count]
    /\ phase' = "done"
    /\ UNCHANGED records
    /\ UNCHANGED <<ledgerVars, refreshVars>>

MatcherNext == AddRecord(QuoteInputs, MaxBatch) \/ FindAndSave

SpecMatcher == MatcherInit /\ [][MatcherNext]_vars

\* The quotes of a batch over two events: event1 at line 25.5 with a sharp
\* Under of +50, event2 at line 26.5, and the record without player_name.
MixedQuoteInputs ==
    {EventQuote(Str("event1"), "pinnacle", "Over", -150, 255),
     EventQuote(Str("event1"), "pinnacle", "Under", 50, 255),
     EventQuote(Str("event1"), "prizepicks", "Over", -110, 255),
     EventQuote(Str("event2"), "pinnacle", "Over", -150, 265),
     EventQuote(Str("event2"), "pinnacle", "Under", 120, 265),
     EventQuote(Str("event2"), "prizepicks", "Over", -110, 265),
     NamelessQuote}

MixedBatchNext == AddRecord(MixedQuoteInputs, MaxMixedBatch) \/ FindAndSave

SpecMixedBatch == MatcherInit /\ [][MixedBatchNext]_vars

----------------------------------------------------------------------------
(* Claims about the ledger *)

\* C1: update_slip_status(slip_id, payout) on an existing slip with stake s > 0
\* stores payout' = max(payout, 0) and sets the status to Profit if payout' > s,
\* Push if payout' = s, Partial if 0 < payout' < s and Lost if payout' = 0, for
\* every numeric payout, negative ones included.
C1_SettlementTable ==
    [][(ret.op = "none" /\ ret'.op = "update_slip_status" /\ ret'.result = "True"
            /\ ret'.payout.t = "num")
        => LET id == ret'.slip_id
               s == slips[CHOOSE i \in SlipRowsById(slips, id) : TRUE].stake
               after == slips'[CHOOSE i \in SlipRowsById(slips', id) : TRUE]
               p == Max(ret'.payout.v, 0)
           IN  s > 0 =>
                 /\ after.payout = p
                 /\ after.stake = s
                 /\ (p > s => after.status = "Profit")
                 /\ (p = s => after.status = "Push")
                 /\ (0 < p /\ p < s => after.status = "Partial")
                 /\ (p = 0 => after.status = "Lost")]_vars

\* C1 witness: a negative payout was submitted for an existing slip, which is now
\* Lost with payout 0.
C1_Witness ==
    /\ ret.op = "update_slip_status" /\ ret.result = "True"
    /\ ret.payout = Num(-5)
    /\ \E i \in SlipRowsById(slips, ret.slip_id) :
          slips[i].status = "Lost" /\ slips[i].payout = 0 /\ slips[i].stake = 20

\* C2 as stated: once a slip's status is Profit, Push, Partial or Lost, no ledger
\* operation changes that status to a different value.
C2_TerminalStatusFrozen ==
    [][\A i \in 1..Len(slips) :
          slips[i].status \in TerminalStatuses
            => i <= Len(slips') /\ slips'[i].status = slips[i].status]_vars

\* C2 amended: once a slip's status is Profit, Push, Partial or Lost it stays one
\* of these four; it changes to another of them only by a successful
\* update_slip_status on that very slip id, and create_slip, get_slip_legs and
\* update_slip_status on any other slip id leave it as it is.
C2_TerminalStatusStaysTerminal ==
    [][\A i \in 1..Len(slips) :
          slips[i].status \in TerminalStatuses
            => /\ i <= Len(slips')
               /\ slips'[i].id = slips[i].id
               /\ slips'[i].status \in TerminalStatuses
               /\ (slips'[i].status # slips[i].status
                     => /\ ret'.op = "update_slip_status"
                        /\ ret'.result = "True"
                        /\ ret'.slip_id = slips[i].id)]_vars

\* C2 witness: a settled slip was settled again and went from one terminal status
\* to another, next to a second settled slip that kept its status.
C2_Witness ==
    /\ ret.op = "update_slip_status" /\ ret.result = "True"
    /\ ret.prev \in TerminalStatuses
    /\ \E i \in SlipRowsById(slips, ret.slip_id) :
          slips[i].status \in TerminalStatuses \ {ret.prev}
    /\ \E j \in 1..Len(slips) :
          slips[j].id # ret.slip_id /\ slips[j].status \in TerminalStatuses

\* C8: create_slip raises a ValueError whenever the stake is <= 0 or not numeric,
\* or the legs argument is empty or not a list, and then adds no slip row and no
\* leg row.
C8_CreateSlipRejectsBadArguments ==
    [][(ret.op = "none" /\ ret'.op = "create_slip"
            /\ (\/ ret'.stake.t = "num" /\ ret'.stake.v <= 0
                \/ ret'.stake.t = "str" /\ ret'.stake.v \notin DOMAIN NumericStrings
                \/ ret'.stake.t \notin {"num", "str"}
                \/ ret'.legs.t # "list"
                \/ ret'.legs.t = "list" /\ Len(ret'.legs.v) = 0))
        => /\ ret'.result = "ValueError"
           /\ slips' = slips
           /\ slip_legs' = slip_legs]_vars

\* C8 witness: a call with a good stake and a legs argument that is no list was
\* rejected while the ledger already held a slip and its leg.
C8_Witness ==
    /\ ret.op = "create_slip" /\ ret.result = "ValueError"
    /\ ret.stake = Num(10) /\ ret.legs = Str("legs")
    /\ Len(slips) = 1 /\ Len(slip_legs) >= 1

\* C9: a storage error inside create_slip after the slip row was inserted is
\* re-raised and leaves neither the slip row nor any of its legs; no ledger state
\* holds a slip or a leg of a failed creation (every stored slip is one a
\* successful call returned, every stored leg belongs to a stored slip).
C9_FailedCreateRollsBack ==
    /\ [](/\ Len(slips) = Len(settledWith)
          /\ \A k \in 1..Len(slip_legs) : SlipRowsById(slips, slip_legs[k].slip_id) # {})
    /\ [][(ret.op = "none" /\ ret'.op = "create_slip" /\ ret'.result = "StorageError")
            => slips' = slips /\ slip_legs' = slip_legs]_vars

\* C9 witness: the second leg INSERT of a call failed after the slip row and the
\* first leg had been inserted, and the ledger holds only the earlier slip.
C9_Witness ==
    /\ ret.op = "create_slip" /\ ret.result = "StorageError"
    /\ ret.legs = List(<<GoodLeg, NullPlayerLeg>>)
    /\ Len(slips) = 1 /\ Len(slip_legs) = 2

\* C10: after any sequence of update_slip_status calls on an existing slip its
\* stored status and payout are those a single call with the last payout
\* produces; settling again with the same payout changes nothing.
C10_LastSettlementWins ==
    \A i \in 1..Len(slips) :
        settledWith[slips[i].id].t # "none"
          => LET payout_value == ClampPayout(safe_float(settledWith[slips[i].id], 0))
             IN  /\ slips[i].payout = payout_value
                 /\ slips[i].status = SettleStatus(payout_value, slips[i].stake)

\* C10 witness: a slip settled as Profit was settled again with a smaller payout
\* and is now Partial.
C10_Witness ==
    /\ ret.op = "update_slip_status" /\ ret.result = "True"
    /\ ret.prev = "Profit" /\ ret.payout = Num(5)
    /\ \E i \in SlipRowsById(slips, ret.slip_id) :
          slips[i].status = "Partial" /\ slips[i].payout = 5

\* C12: update_slip_status called with a slip id that no stored slip has returns
\* False and leaves every stored slip and every stored leg as it was.
C12_UnknownSlipIdReturnsFalse ==
    [][(ret.op = "none" /\ ret'.op = "update_slip_status"
            /\ \A i \in 1..Len(slips) : slips[i].id # ret'.slip_id)
        => /\ ret'.result = "False"
           /\ slips' = slips
           /\ slip_legs' = slip_legs]_vars

\* C12 witness: with two slips stored, one of them settled, a call on id 3
\* returned False.
C12_Witness ==
    /\ ret.op = "update_slip_status" /\ ret.result = "False"
    /\ ret.slip_id = 3 /\ ret.payout = Num(30)
    /\ Len(slips) = 2 /\ Len(slip_legs) = 2
    /\ \E i \in 1..Len(slips) : slips[i].status \in TerminalStatuses

\* C11 as stated: in every state reachable by create_slip and update_slip_status
\* calls with arbitrary arguments every stored slip has stake > 0 and payout >= 0,
\* and a slip no successful update_slip_status has targeted is Pending with payout 0.
C11_SlipInvariants ==
    \A i \in 1..Len(slips) :
        /\ slips[i].stake # SqlNull /\ slips[i].stake > 0
        /\ slips[i].payout # SqlNull /\ slips[i].payout >= 0
        /\ settledWith[slips[i].id].t = "none"
             => slips[i].status = "Pending" /\ slips[i].payout = 0

\* C13 as stated: create_slip with a valid stake and a non-empty legs list, no
\* storage fault striking, returns a new slip, persists exactly one leg per
\* dict-typed element of the list and skips every other element, so that
\* get_slip_legs of the new slip has as many legs as the list has dicts.
C13_OneLegPerDictElement ==
    [][(ret.op = "none" /\ ret'.op = "create_slip" /\ ret'.fault = 0
            /\ safe_float(ret'.stake, 0) # NaN /\ safe_float(ret'.stake, 0) > 0
            /\ ret'.legs.t = "list" /\ Len(ret'.legs.v) > 0)
        => /\ ret'.result = "ok"
           /\ Len(slips') = Len(slips) + 1
           /\ Len(SelectLegs(slip_legs', ret'.slip_id))
                = Cardinality({k \in 1..Len(ret'.legs.v) : ret'.legs.v[k].t = "dict"})
           /\ Len(slip_legs') = Len(slip_legs) + Len(SelectLegs(slip_legs', ret'.slip_id))]_vars

\* C29: once update_slip_status has succeeded on a slip, the slip is never
\* Pending again, whatever operations follow and whatever payouts they submit.
C29_SettledNeverPendingAgain ==
    \A slip_id \in 1..MaxSlips :
        []((ret.op = "update_slip_status" /\ ret.result = "True" /\ ret.slip_id = slip_id)
            => [](\E i \in 1..Len(slips) :
                     slips[i].id = slip_id /\ slips[i].status # "Pending"))

\* A slip settled before has been settled again, with a payout that is no number.
C29_Witness ==
    /\ ret.op = "update_slip_status"
    /\ ret.result = "True"
    /\ ret.prev \in TerminalStatuses
    /\ ret.payout = Str("abc")
    /\ \E i \in SlipRowsById(slips, ret.slip_id) : slips[i].status = "Lost"

\* C30: every slip create_slip has stored has at least one stored leg; no
\* state of the ledger holds a slip without legs.
C30_EverySlipHasALeg ==
    \A i \in 1..Len(slips) : SelectLegs(slip_legs, slips[i].id) # <<>>

----------------------------------------------------------------------------
(* The refresh cycle: fetch_odds of src/src/odds_api.py over the bets table of *)
(* src/src/db.py, and a dashboard session reading the table meanwhile          *)

SUPPORTED_SPORTS ==
    <<"basketball_nba", "basketball_ncaab", "americanfootball_nfl",
      "americanfootball_ncaaf", "baseball_mlb", "icehockey_nhl">>

\* DELETE FROM bets; commit
ClearedBetsKeepsRows(rows) == rows
ClearedBets(rows) == <<>>

\* The id of the k-th event the API lists for a sport.
EventId(sport_key, k) == Str(<<sport_key, k>>)

\* The prop_records _parse_props_response may build for one event.
EventBatches(event_id) ==
    {<<EventQuote(event_id, "pinnacle", "Over", -150, 255),
       EventQuote(event_id, "pinnacle", "Under", 120, 255),
       EventQuote(event_id, "prizepicks", "Over", -110, 255),
       EventQuote(event_id, "prizepicks", "Under", -110, 255)>>,
     <<EventQuote(event_id, "fanduel", "Over", 120, 255),
       EventQuote(event_id, "fanduel", "Under", -150, 255),
       EventQuote(event_id, "underdog", "Under", -110, 255)>>,
     <<EventQuote(event_id, "prizepicks", "Over", -110, 255)>>}

NoPending == [rows |-> <<>>, result |-> "ok"]

\* How a request to the API may fail: an OddsAPIError of _make_request, or an
\* exception of requests.get (a timeout), which is no OddsAPIError.
RequestFailures == {"OddsAPIError", "RequestException"}

\* fetch_odds up to its first request: initialize_db() creates missing tables
\* only, clear_bets() empties table bets and commits.
FetchOddsBegin ==
    /\ pc \in {"idle", "done", "raised"}
    /\ cycle < MaxCycles
    /\ cycle' = cycle + 1
    /\ previous' = bets
    /\ bets' = ClearedBets(bets)
    /\ computed' = <<>>
    /\ total_odds_count' = 0
    /\ sports' = <<>>
    /\ events' = <<>>
    /\ pending' = NoPending
    /\ pc' = "sports"
    /\ upstream' = "none"
    /\ UNCHANGED <<odds_snapshot, seen>>
    /\ UNCHANGED <<ledgerVars, batchVars>>

\* all_sports = get_sports() raises: nothing in fetch_odds catches it.
GetSportsRaises ==
    /\ pc = "sports"
    /\ \E failure \in RequestFailures : pc' = "raised" /\ upstream' = failure
    /\ UNCHANGED <<cycle, sports, events, pending, total_odds_count, odds_snapshot,
                   computed, previous, seen, bets>>
    /\ UNCHANGED <<ledgerVars, batchVars>>

\* get_sports() returns; in_season_sports are the active sports among the targets.
GetSportsReturns ==
    /\ pc = "sports"
    /\ \E n \in 0..MaxSports :
          /\ sports' = Prefix(SUPPORTED_SPORTS, n)
          /\ pc' = IF n = 0 THEN "done" ELSE "sport"
    /\ upstream' = "none"
    /\ UNCHANGED <<cycle, events, pending, total_odds_count, odds_snapshot,
                   computed, previous, seen, bets>>
    /\ UNCHANGED <<ledgerVars, batchVars>>

\* The sport loop moves on to the sports left, or fetch_odds returns.
AfterSport(rest) ==
    /\ sports' = rest
    /\ events' = <<>>
    /\ pc' = IF rest = <<>> THEN "done" ELSE "sport"

\* The event loop moves on to the events left, or the sport is finished.
AfterEventLeavesSport(rest) == AfterSport(Tail(sports))
AfterEvent(rest) ==
    IF rest = <<>> THEN AfterSport(Tail(sports))
    ELSE /\ events' = rest
         /\ pc' = "event"
         /\ sports' = sports

\* events = get_events(sport_key) raises: an OddsAPIError is caught by the
\* sport's except clause, any other exception leaves fetch_odds.
GetEventsRaises ==
    /\ pc = "sport"
    /\ \E failure \in RequestFailures :
          /\ upstream' = failure
          /\ IF failure = "OddsAPIError" THEN AfterSport(Tail(sports))
             ELSE pc' = "raised" /\ UNCHANGED <<sports, events>>
    /\ UNCHANGED <<cycle, pending, total_odds_count, odds_snapshot,
                   computed, previous, seen, bets>>
    /\ UNCHANGED <<ledgerVars, batchVars>>

GetEventsReturns(max_events) ==
    /\ pc = "sport"
    /\ upstream' = "none"
    /\ \E n \in 0..max_events :
          IF n = 0 THEN AfterSport(Tail(sports))
          ELSE /\ events' = [k \in 1..n |-> EventId(Head(sports), k)]
               /\ pc' = "event"
               /\ sports' = sports
    /\ UNCHANGED <<cycle, pending, total_odds_count, odds_snapshot,
                   computed, previous, seen, bets>>
    /\ UNCHANGED <<ledgerVars, batchVars>>

\* The event has no id or commence_time, a time that does not parse, has
\* started already or starts more than 12 hours from now: continue.
SkipEvent ==
    /\ pc = "event"
    /\ upstream' = "none"
    /\ AfterEvent(Tail(events))
    /\ UNCHANGED <<cycle, pending, total_odds_count, odds_snapshot,
                   computed, previous, seen, bets>>
    /\ UNCHANGED <<ledgerVars, batchVars>>

\* get_player_props raises: an OddsAPIError is caught by the event's except
\* clause, any other exception leaves fetch_odds.
PropsRaises ==
    /\ pc = "event"
    /\ \E failure \in RequestFailures :
          /\ upstream' = failure
          /\ IF failure = "OddsAPIError" THEN AfterEvent(Tail(events))
             ELSE pc' = "raised" /\ UNCHANGED <<sports, events>>
    /\ UNCHANGED <<cycle, pending, total_odds_count, odds_snapshot,
                   computed, previous, seen, bets>>
    /\ UNCHANGED <<ledgerVars, batchVars>>

\* props_data is empty, or _parse_props_response finds no record in it.
PropsEmpty ==
    /\ pc = "event"
    /\ upstream' = "none"
    /\ AfterEvent(Tail(events))
    /\ UNCHANGED <<cycle, pending, total_odds_count, odds_snapshot,
                   computed, previous, seen, bets>>
    /\ UNCHANGED <<ledgerVars, batchVars>>

\* prop_records is not empty: insert_odds_batch stores it, and
\* _find_and_save_ev_opportunities computes the opportunities of the event; its
\* insert_bet calls follow one by one, each with its own connection and commit.
PropsBatch ==
    /\ pc = "event"
    /\ upstream' = "none"
    /\ \E prop_records \in EventBatches(Head(events)) :
          LET run == find_and_save_ev_opportunities(prop_records, <<>>) IN
          /\ odds_snapshot' = odds_snapshot + Len(prop_records)
          /\ total_odds_count' = total_odds_count + Len(prop_records)
          /\ computed' = computed \o run.rows
          /\ IF run.rows # <<>>
             THEN /\ pending' = [rows |-> run.rows, result |-> run.result]
                  /\ pc' = "insert"
                  /\ UNCHANGED <<sports, events>>
             ELSE /\ pending' = NoPending
                  /\ IF run.result = "ok" THEN AfterEvent(Tail(events))
                     ELSE pc' = "raised" /\ UNCHANGED <<sports, events>>
    /\ UNCHANGED <<cycle, previous, seen, bets>>
    /\ UNCHANGED <<ledgerVars, batchVars>>

\* One db.insert_bet call of the matcher: INSERT INTO bets; commit.  After the
\* last one the matcher returns, or raises what ended its run.
InsertBet ==
    /\ pc = "insert"
    /\ bets' = Append(bets, Head(pending.rows))
    /\ LET rest == Tail(pending.rows) IN
       IF rest # <<>>
       THEN /\ pending' = [pending EXCEPT !.rows = rest]
            /\ UNCHANGED <<pc, sports, events>>
       ELSE /\ pending' = NoPending
            /\ IF pending.result = "ok" THEN AfterEvent(Tail(events))
               ELSE pc' = "raised" /\ UNCHANGED <<sports, events>>
    /\ UNCHANGED <<cycle, total_odds_count, odds_snapshot, computed, previous, upstream, seen>>
    /\ UNCHANGED <<ledgerVars, batchVars>>

\* GROUP BY player_name, market, line_value, dfs_book
OpportunityGroup(row) == <<row.player_name, row.market, row.line_value, row.dfs_book>>

\* The rows of a group that carry its MAX(ev_percentage): SQLite takes the
\* other selected columns from one of them.
MaxEvRows(rows, group) ==
    LET of == {i \in 1..Len(rows) : OpportunityGroup(rows[i]) = group}
    IN  {i \in of : \A j \in of : FLeq(rows[j].ev_percentage, rows[i].ev_percentage)}

\* One entry of the DataFrame (the timestamp column aside).
DisplayRow(row) ==
    LET over_price == row.pinnacle_over_price
        under_price == row.pinnacle_under_price
    IN  [Book |-> IF row.dfs_book = "" THEN "Unknown" ELSE row.dfs_book,
         Player |-> row.player_name,
         Market |-> row.market,
         Line |-> row.line_value,
         Odds |-> IF over_price # 0 /\ under_price # 0 THEN <<over_price, under_price>>
                  ELSE IF over_price # 0 THEN <<over_price>>
                  ELSE IF under_price # 0 THEN <<under_price>>
                  ELSE <<>>,
         Win_Prob |-> row.fair_win_prob,
         EV |-> row.ev_percentage]

\* The results get_all_opportunities may return over the given table: one
\* entry per group, ORDER BY ev_percentage DESC.
Views(rows) ==
    LET groups == {OpportunityGroup(rows[i]) : i \in 1..Len(rows)}
        entries(group) == {DisplayRow(rows[i]) : i \in MaxEvRows(rows, group)}
        n == Cardinality(groups)
    IN  {view \in [1..n -> UNION {entries(group) : group \in groups}] :
            /\ \A group \in groups : \E k \in 1..n : view[k] \in entries(group)
            /\ \A k \in 1..n : \A l \in k..n : FLeq(view[l].EV, view[k].EV)}

\* Another session of the dashboard loads the table, whatever fetch_odds is at.
get_all_opportunities ==
    /\ \E view \in Views(bets) :
          seen' = [view |-> view, cycle |-> cycle,
                   during |-> pc \in {"sports", "sport", "event", "insert"}]
    /\ UNCHANGED <<pc, cycle, sports, events, pending, total_odds_count, odds_snapshot,
                   computed, previous, upstream, bets>>
    /\ UNCHANGED <<ledgerVars, batchVars>>

RefreshInit == InitLedger /\ InitMatcherIdle /\ InitRefreshIdle

RefreshNext ==
    \/ FetchOddsBegin
    \/ GetSportsRaises
    \/ GetSportsReturns
    \/ GetEventsRaises
    \/ GetEventsReturns(MaxEvents)
    \/ SkipEvent
    \/ PropsRaises
    \/ PropsEmpty
    \/ PropsBatch
    \/ InsertBet
    \/ get_all_opportunities

SpecRefresh == RefreshInit /\ [][RefreshNext]_vars

\* fetch_odds alone, with sports of several events.
IsolationNext ==
    \/ FetchOddsBegin
    \/ GetSportsRaises
    \/ GetSportsReturns
    \/ GetEventsRaises
    \/ GetEventsReturns(MaxSiblingEvents)
    \/ SkipEvent
    \/ PropsRaises
    \/ PropsEmpty
    \/ PropsBatch
    \/ InsertBet

SpecIsolation == RefreshInit /\ [][IsolationNext]_vars

----------------------------------------------------------------------------
(* What the grouping loop leaves in grouped, read off the batch itself *)

\* A record the first loop does not skip: all of player_name, market_key,
\* bookmaker, selection present and non-empty, and a price.
WellFormedQuote(record) ==
    /\ \A k \in {"player_name", "market_key", "bookmaker", "selection"} :
          k \in DOMAIN record.v /\ record.v[k].t = "str" /\ record.v[k].v # ""
    /\ "price" \in DOMAIN record.v /\ record.v["price"].t # "none"

\* key = (player_name, market_key, point)
QuoteKey(record) ==
    <<record.v["player_name"].v, record.v["market_key"].v,
      IF "point" \in DOMAIN record.v THEN record.v["point"] ELSE Num(0)>>

\* The records that assign grouped[key][bookmaker][selection].
QuotesOf(recs, key, bookmaker, selection) ==
    {i \in 1..Len(recs) :
        /\ WellFormedQuote(recs[i])
        /\ QuoteKey(recs[i]) = key
        /\ recs[i].v["bookmaker"].v = bookmaker
        /\ recs[i].v["selection"].v = selection}

HasQuote(recs, key, bookmaker, selection) == QuotesOf(recs, key, bookmaker, selection) # {}

\* grouped[key][bookmaker][selection] after the loop: the last assignment stays.
LastPrice(recs, key, bookmaker, selection) ==
    LET at == QuotesOf(recs, key, bookmaker, selection)
        last == CHOOSE i \in at : \A j \in at : j <= i
    IN  recs[last].v["price"].v

\* bookmaker in grouped[key]
InGroup(recs, key, bookmaker) ==
    \E i \in 1..Len(recs) :
        /\ WellFormedQuote(recs[i])
        /\ QuoteKey(recs[i]) = key
        /\ recs[i].v["bookmaker"].v = bookmaker

GroupKeys(recs) == {QuoteKey(recs[i]) : i \in {j \in 1..Len(recs) : WellFormedQuote(recs[j])}}

\* American odds are legal outside the open interval (-100, 100).
LegalAmericanOdds(price) == price <= -100 \/ price >= 100

\* The key and the side of a stored opportunity row.
RowKey(row) == <<row.player_name, row.market[1], row.line_value>>
RowSide(row) == IF row.market[2] = "_over" THEN "Over" ELSE "Under"

----------------------------------------------------------------------------
(* Claims about the matcher *)

\* C3: for one batch of quotes (every record carrying its event_id, as
\* _parse_props_response builds them) _find_and_save_ev_opportunities writes an
\* Opportunity for (player, market, line, DFS book, side) exactly when the group
\* (player, market, line) has a chosen sharp book with an Over and an Under price
\* that are both legal American odds and that DFS book quotes that side at the same
\* line; each is written once, and the returned count is the number written.
C3_OpportunityExactlyWhenMatched ==
    phase = "done" =>
        LET chosen(key) == IF InGroup(records, key, "pinnacle") THEN "pinnacle"
                           ELSE IF InGroup(records, key, "fanduel") THEN "fanduel"
                           ELSE ""
            sharpOk(key) ==
                /\ chosen(key) # ""
                /\ HasQuote(records, key, chosen(key), "Over")
                /\ HasQuote(records, key, chosen(key), "Under")
                /\ LegalAmericanOdds(LastPrice(records, key, chosen(key), "Over"))
                /\ LegalAmericanOdds(LastPrice(records, key, chosen(key), "Under"))
            dfs == {DFS_BOOKMAKERS[d] : d \in 1..Len(DFS_BOOKMAKERS)}
            expected == {x \in GroupKeys(records) \X dfs \X {"Over", "Under"} :
                            sharpOk(x[1]) /\ HasQuote(records, x[1], x[2], x[3])}
            written == {<<RowKey(bets[b]), bets[b].dfs_book, RowSide(bets[b])>> :
                            b \in 1..Len(bets)}
        IN  /\ matched.result = "ok"
            /\ written = {<<x[1], DFS_BOOK_NAMES[x[2]], x[3]>> : x \in expected}
            /\ Len(bets) = Cardinality(expected)
            /\ matched.ev_count = Len(bets)

\* C3 witness: the sharp book quotes both sides at 25.5, the DFS book quotes Over
\* at 25.5 and Over at 26.5 and no Under: one Opportunity, Over at 25.5.
C3_Witness ==
    /\ phase = "done"
    /\ Range(records) = {Quote("pinnacle", "Over", -150, 255),
                         Quote("pinnacle", "Under", 120, 255),
                         Quote("prizepicks", "Over", -110, 255),
                         Quote("prizepicks", "Over", -110, 265)}
    /\ Len(bets) = 1 /\ matched.ev_count = 1
    /\ bets[1].line_value = Num(255) /\ bets[1].market = <<"player_points", "_over">>
    /\ bets[1].dfs_book = "PrizePicks"

\* C4: the sharp prices recorded in a group's Opportunities are pinnacle's whenever
\* pinnacle has a quote in the group and fanduel's only when pinnacle has none; a
\* group with neither sharp book has no Opportunity.
C4_PrimarySharpPreferred ==
    phase = "done" =>
        \A b \in 1..Len(bets) :
            LET key == RowKey(bets[b])
                from(book) ==
                    /\ HasQuote(records, key, book, "Over")
                    /\ HasQuote(records, key, book, "Under")
                    /\ bets[b].pinnacle_over_price = LastPrice(records, key, book, "Over")
                    /\ bets[b].pinnacle_under_price = LastPrice(records, key, book, "Under")
            IN  IF InGroup(records, key, "pinnacle") THEN from("pinnacle")
                ELSE InGroup(records, key, "fanduel") /\ from("fanduel")

\* C4 witness: both sharp books quote in the group and the Opportunity carries
\* pinnacle's prices, which differ from fanduel's.
C4_Witness ==
    /\ phase = "done"
    /\ Quote("fanduel", "Over", 120, 255) \in Range(records)
    /\ Quote("pinnacle", "Over", -150, 255) \in Range(records)
    /\ Len(bets) = 1
    /\ bets[1].pinnacle_over_price = -150 /\ bets[1].pinnacle_under_price = 120

\* C5: the stored EV of every Opportunity is the raw EV times the confidence of
\* its sharp source (1 for pinnacle, 3/4 for fanduel) when the raw EV is positive
\* and the raw EV itself otherwise; it has the sign of the raw EV and is no
\* further from zero.
C5_ConfidenceOnlyOnPositiveEV ==
    phase = "done" =>
        \A b \in 1..Len(bets) :
            LET row == bets[b]
                fair == devig_pinnacle_odds(row.pinnacle_over_price, row.pinnacle_under_price)
                raw == calculate_ev_percentage(
                           IF RowSide(row) = "Over" THEN fair[1] ELSE fair[2],
                           IMPLIED_BREAKEVEN_PROB)
                factor == IF InGroup(records, RowKey(row), "pinnacle") THEN <<1, 1>>
                          ELSE <<3, 4>>
                stored == row.ev_percentage
            IN  /\ raw[1] > 0 => stored = FMul(raw, factor)
                /\ raw[1] <= 0 => stored = raw
                /\ (stored[1] > 0) = (raw[1] > 0)
                /\ (stored[1] < 0) = (raw[1] < 0)
                /\ FLeq(FAbs(stored), FAbs(raw))

\* C5 witness: fanduel is the sharp source; the Over Opportunity has a negative
\* EV stored as it is, the Under Opportunity a positive EV stored at three quarters.
C5_Witness ==
    /\ phase = "done"
    /\ Len(bets) = 2
    /\ bets[1].pinnacle_over_price = 120 /\ bets[1].pinnacle_under_price = -150
    /\ bets[1].ev_percentage = calculate_ev_percentage(<<25, 58>>, IMPLIED_BREAKEVEN_PROB)
    /\ bets[1].ev_percentage[1] < 0
    /\ bets[2].ev_percentage =
          FMul(calculate_ev_percentage(<<33, 58>>, IMPLIED_BREAKEVEN_PROB), <<3, 4>>)
    /\ bets[2].ev_percentage[1] > 0

\* C25: a group in which pinnacle quotes one side only yields no Opportunity,
\* also when fanduel quotes both sides at that line: fanduel is looked at only
\* when pinnacle has no quote in the group at all.
C25_OneSidedPrimaryYieldsNothing ==
    phase = "done" =>
        \A key \in GroupKeys(records) :
            (/\ InGroup(records, key, "pinnacle")
             /\ ~(HasQuote(records, key, "pinnacle", "Over")
                    /\ HasQuote(records, key, "pinnacle", "Under")))
                => \A b \in 1..Len(bets) : RowKey(bets[b]) # key

\* pinnacle quotes Over only, fanduel both sides, the DFS book Over: nothing is written.
C25_Witness ==
    /\ phase = "done"
    /\ Range(records) = {Quote("pinnacle", "Over", -150, 255),
                         Quote("fanduel", "Over", 120, 255),
                         Quote("fanduel", "Under", -150, 255),
                         Quote("prizepicks", "Over", -110, 255)}
    /\ bets = <<>>
    /\ matched = [result |-> "ok", ev_count |-> 0]

\* C26 as stated: a record lacking a required field and a group whose sharp
\* prices lie in the dead zone (-100, 100) are passed over without an
\* exception, and what is written for the other groups is what the batch
\* without these records would give, wherever in the batch they stand.
C26_SkippedQuotesLeaveNoTrace ==
    phase = "done" =>
        LET deadZone(key) ==
                /\ InGroup(records, key, "pinnacle")
                /\ HasQuote(records, key, "pinnacle", "Over")
                /\ HasQuote(records, key, "pinnacle", "Under")
                /\ \/ ~LegalAmericanOdds(LastPrice(records, key, "pinnacle", "Over"))
                   \/ ~LegalAmericanOdds(LastPrice(records, key, "pinnacle", "Under"))
            kept == SelectSeq(records, LAMBDA record :
                        WellFormedQuote(record) /\ ~deadZone(QuoteKey(record)))
        IN  /\ matched.result = "ok"
            /\ bets = find_and_save_ev_opportunities(kept, <<>>).rows

\* C28 as stated: every Opportunity carries the event id of the quotes of its
\* own (player, market, line) group, also in a batch with quotes of several events.
C28_OpportunityCarriesEventOfItsGroup ==
    phase = "done" =>
        \A b \in 1..Len(bets) :
            \A i \in 1..Len(records) :
                (WellFormedQuote(records[i]) /\ QuoteKey(records[i]) = RowKey(bets[b]))
                    => bets[b].event_id = records[i].v["event_id"]

----------------------------------------------------------------------------
(* Claims about the refresh cycle *)

\* C6: when a fetch_odds cycle has returned, table bets holds exactly the
\* opportunities computed in that cycle, over all its events, and none that an
\* earlier cycle wrote.
C6_RefreshReplacesOpportunities ==
    pc = "done" => bets = computed

\* C6 witness: the second cycle has returned; the first had left opportunities,
\* the second computed others, and none of the first cycle's is stored.
C6_Witness ==
    /\ pc = "done" /\ cycle = 2
    /\ previous # <<>> /\ bets # <<>>
    /\ Range(previous) \cap Range(bets) = {}

\* C7 as stated: what a reader got from get_all_opportunities while a refresh
\* was under way is the complete set of the previous cycle or the complete set
\* of the new one, never an emptied or partly inserted table.
C7_ReaderSeesOnlyCompleteSets ==
    (pc \in {"done", "raised"} /\ seen.during /\ seen.cycle = cycle)
        => seen.view \in Views(previous) \cup Views(bets)

C15_UpstreamFailureNeverPropagates == ~(pc = "raised" /\ upstream \in RequestFailures)

\* C16 as stated: once fetch_odds has returned, table bets holds at most one
\* row per (player_name, market, line_value, dfs_book), whatever number of
\* events the cycle went through.
C16_OneOpportunityPerCombination ==
    pc = "done" =>
        \A i, j \in 1..Len(bets) :
            OpportunityGroup(bets[i]) = OpportunityGroup(bets[j]) => i = j

\* C17 as stated: every entry of get_all_slips carries as P/L payout - stake
\* for a Profit or Won slip, -stake for a Lost one, 0 for a Push, and none for
\* a Pending one.
C17_ListedProfitAndLoss ==
    ret.op = "get_all_slips" =>
        \A k \in 1..Len(ret.value) :
            LET entry == ret.value[k]
                slip == slips[entry.ID]
            IN  /\ slip.status \in {"Profit", "Won"} => entry.PL = Num(slip.payout - slip.stake)
                /\ slip.status = "Lost" => entry.PL = Num(0 - slip.stake)
                /\ slip.status = "Push" => entry.PL = Num(0)
                /\ slip.status = "Pending" => entry.PL = Str("-")

----------------------------------------------------------------------------
(* Claims about the analytics *)

\* The slips that are settled, in the order of their creation.
SettledSlips == SelectSeq(slips, LAMBDA slip : slip.status # "Pending")

\* The sum of the first n numbers of a sequence.
RECURSIVE SumOver(_, _)
SumOver(amounts, n) == IF n = 0 THEN 0 ELSE SumOver(amounts, n - 1) + amounts[n]

SlipStake(slip) == slip.stake
SlipNet(slip) == slip.payout - slip.stake

SettledStakes == [i \in 1..Len(SettledSlips) |-> SlipStake(SettledSlips[i])]
SettledNets == [i \in 1..Len(SettledSlips) |-> SlipNet(SettledSlips[i])]

\* C18: get_slip_analytics returns as total_staked the sum of the stakes of the
\* slips that are not Pending and as total_profit the sum of their
\* payout - stake (-stake when Lost, 0 when Push, negative when Partial);
\* Pending slips add to neither.
C18_TotalsOverSettledSlips ==
    ret.op = "get_slip_analytics" =>
        /\ ret.value.total_staked = SumOver(SettledStakes, Len(SettledStakes))
        /\ ret.value.total_profit = SumOver(SettledNets, Len(SettledNets))
        /\ \A i \in 1..Len(SettledSlips) :
              LET slip == SettledSlips[i] IN
              /\ slip.status = "Lost" => SlipNet(slip) = 0 - slip.stake
              /\ slip.status = "Push" => SlipNet(slip) = 0
              /\ slip.status = "Partial" => SlipNet(slip) < 0

\* A Lost slip of stake 10, a Pending slip beside it.
C18_Witness ==
    /\ ret.op = "get_slip_analytics"
    /\ Len(slips) = 2
    /\ slips[1].status = "Lost" /\ slips[1].stake = 10
    /\ slips[2].status = "Pending"
    /\ ret.value.total_staked = 10
    /\ ret.value.total_profit = 0 - 10
    /\ ret.value.pending = 1

\* C19: get_slip_analytics counts the Profit and Won slips as wins, the Lost
\* and Partial slips as losses, Push and Pending slips as neither, and returns
\* win_rate = wins / (wins + losses) * 100, or 0 when wins + losses = 0.
C19_WinsLossesAndWinRate ==
    ret.op = "get_slip_analytics" =>
        LET won == {i \in 1..Len(slips) : slips[i].status \in {"Profit", "Won"}}
            lost == {i \in 1..Len(slips) : slips[i].status \in {"Lost", "Partial"}}
            decided == Cardinality(won) + Cardinality(lost)
        IN  /\ ret.value.wins = Cardinality(won)
            /\ ret.value.losses = Cardinality(lost)
            /\ ret.value.win_rate = IF decided = 0 THEN <<0, 1>>
                                    ELSE Frac(Cardinality(won) * 100, decided)

\* One Profit and one Partial slip: a win rate of 50.
C19_Witness ==
    /\ ret.op = "get_slip_analytics"
    /\ Len(slips) = 2
    /\ slips[1].status = "Profit"
    /\ slips[2].status = "Partial"
    /\ ret.value.wins = 1
    /\ ret.value.losses = 1
    /\ ret.value.win_rate = <<50, 1>>

\* C20: bankroll_history begins with 100 and has one more entry for every slip
\* that is not Pending, in the order the slips were created; each entry is the
\* one before plus that slip's payout - stake, so the last one is
\* 100 + total_profit.
C20_BankrollHistory ==
    ret.op = "get_slip_analytics" =>
        LET history == ret.value.bankroll_history IN
        /\ history[1] = 100
        /\ Len(history) = 1 + Len(SettledSlips)
        /\ \A k \in 1..Len(SettledSlips) : history[k + 1] = history[k] + SlipNet(SettledSlips[k])
        /\ Last(history) = 100 + ret.value.total_profit

\* The first slip Lost on stake 10, the second a Profit of 30 on stake 10.
C20_Witness ==
    /\ ret.op = "get_slip_analytics"
    /\ Len(slips) = 2
    /\ slips[1].status = "Lost"
    /\ slips[2].status = "Profit"
    /\ ret.value.bankroll_history = <<100, 90, 110>>

----------------------------------------------------------------------------
(* Claims about the hit history *)

\* The legs the query of the last get_historical_hit_rate call keeps.
QueriedRows ==
    HitRateRows(slip_legs, slips, ret.query.player_name,
                MarketPattern(ret.query.market,
                              LineDirection(ret.query.market, ret.query.line_direction)))

\* C21 as stated: get_historical_hit_rate(player, market, limit=N) returns the
\* binary outcomes of the N most recent matching settled legs with a recognised
\* outcome, fewer only when fewer exist: a leg with an unrecognised outcome is
\* left out and takes no place among the N.
C21_RecognisedOutcomesFillLimit ==
    ret.op = "get_historical_hit_rate" =>
        \E order \in RowOrders(QueriedRows) :
            ret.value = Prefix(HitPattern([k \in 1..Len(order) |-> slip_legs[order[k]].outcome]),
                               ret.query.limit)

\* C27 as stated: every leg get_historical_hit_rate draws an outcome from is a
\* leg of the player asked for, in a market of the type asked for (and of the
\* direction given or named by the market), on a slip that is not Pending.
C27_OutcomesOfRequestedMarketOnly ==
    ret.op = "get_historical_hit_rate" =>
        \A k \in 1..Len(ret.query.fetched) :
            LET leg == slip_legs[ret.query.fetched[k]]
                direction == LineDirection(ret.query.market, ret.query.line_direction)
            IN  HitPattern(<<leg.outcome>>) # <<>> =>
                    /\ leg.player = ret.query.player_name
                    /\ Contains(LowerCase[leg.market], LowerCase[ret.query.market])
                    /\ Truthy(direction) => Contains(LowerCase[leg.market], direction.v)
                    /\ slips[leg.slip_id].status # "Pending"

----------------------------------------------------------------------------
(* Claims about the probability functions *)

\* C22, amended: for legal American odds (over, under) whose implied
\* probabilities sum to 1 or more, each component of devig_pinnacle_odds is at
\* most the implied probability of its side; when they sum to less than 1,
\* each component is greater than it.
C22_DevigAtMostImpliedUnderVig ==
    ret.op = "devig_pinnacle_odds" =>
        LET over_implied == calculate_implied_probability(ret.args[1])
            under_implied == calculate_implied_probability(ret.args[2])
        IN  IF FLeq(<<1, 1>>, FAdd(over_implied, under_implied))
            THEN FLeq(ret.value[1], over_implied) /\ FLeq(ret.value[2], under_implied)
            ELSE ~FLeq(ret.value[1], over_implied) /\ ~FLeq(ret.value[2], under_implied)

\* -150 / +130: both components lie below the implied probabilities.
C22_Witness ==
    /\ ret.op = "devig_pinnacle_odds"
    /\ ret.args = <<-150, 130>>
    /\ ret.value = <<Frac(69, 119), Frac(50, 119)>>
    /\ ~FLeq(calculate_implied_probability(-150), ret.value[1])

\* C22 as stated: for every pair of legal American odds each component of
\* devig_pinnacle_odds is at most the implied probability of its side.
C22_DevigAtMostImplied ==
    ret.op = "devig_pinnacle_odds" =>
        /\ FLeq(ret.value[1], calculate_implied_probability(ret.args[1]))
        /\ FLeq(ret.value[2], calculate_implied_probability(ret.args[2]))

====
